---- MODULE Spec2Model ----
(***************************************************************************)
(* Model of the log-file splitter of vscode-xlog,                          *)
(* src/src/commands/split-file.ts (splitFileCommand).                      *)
(*                                                                         *)
(* The source file is a sequence of bytes.  The read stream is opened with *)
(* encoding 'utf8', so the handlers see the DECODED characters; the write  *)
(* streams encode the strings they are given back to bytes.  Sizes are     *)
(* measured in one unit throughout: the model takes 1 MB = 1 byte, so      *)
(* fileSizeInMB = fileSizeInBytes and splitSizeInMB = splitSizeInBytes.    *)
(***************************************************************************)
EXTENDS Integers, Sequences, FiniteSets, TLC

\* ------------------------------------------------------------------ bounds
\* Longest source file, in bytes.
MaxLen == 4
\* Most write-stream failures injected into one run.
MaxWriteErrors == 1
\* Stand-in for the 800 (MB) of line 44: files of at most this size are not split.
NoSplitLimit == 2
\* Stand-in for the default 500 (MB) of lines 54 and 76.
DefaultSplitSize == 1
\* Stand-in for BATCH_SIZE = 100 of line 119.
BATCH_SIZE == 2

\* highWaterMark of the read stream (line 110): the most bytes one 'data' callback
\* delivers.  2 MB in the code.
HighWaterMark == 2

\* File names of up to this many pieces.
MaxNameLen == 3

\* Stand-in for the 1000 (ms) of line 159: the least time between two throttled
\* log lines.
LogInterval == 1
\* The clock's last value.
MaxTime == 3

\* ------------------------------------------------------------- bytes, chars
\* Bytes a source file is made of: line feed, an ASCII letter, and the two bytes
\* of U+00E9 (C3 A9).  A C3 not followed by A9, and an A9 not preceded by C3, are
\* invalid UTF-8.
SrcBytes == {"LF", "a", "C3", "A9"}
\* The newline character '\n'.
NL == "LF"

\* Node's utf8 decoding (StringDecoder): a valid sequence gives its character,
\* every invalid byte gives U+FFFD.
RECURSIVE Utf8Decode(_)
Utf8Decode(bytes) ==
  IF bytes = <<>> THEN <<>>
  ELSE IF Head(bytes) = "C3" /\ Len(bytes) >= 2 /\ bytes[2] = "A9"
       THEN <<"e9">> \o Utf8Decode(SubSeq(bytes, 3, Len(bytes)))
  ELSE IF Head(bytes) \in {"C3", "A9"}
       THEN <<"FFFD">> \o Utf8Decode(Tail(bytes))
  ELSE <<Head(bytes)>> \o Utf8Decode(Tail(bytes))

\* The UTF-8 bytes of one character.
EncodeChar(c) ==
  CASE c = "e9" -> <<"C3", "A9">>
    [] c = "FFFD" -> <<"EF", "BF", "BD">>
    [] OTHER -> <<c>>

\* The bytes a write stream with encoding 'utf8' writes for a string.
RECURSIVE Utf8Encode(_)
Utf8Encode(str) ==
  IF str = <<>> THEN <<>> ELSE EncodeChar(Head(str)) \o Utf8Encode(Tail(str))

\* Variant of ByteLength with a fault: the number of characters of the string.
ByteLengthCountsChars(str) == Len(str)

\* Buffer.byteLength(str, 'utf8').
ByteLength(str) == Len(Utf8Encode(str))

\* buffer.indexOf('\n'), 1-based; 0 where JavaScript gives -1.
IndexOfNewline(str) ==
  IF \E i \in 1..Len(str) : str[i] = NL
  THEN CHOOSE i \in 1..Len(str) : str[i] = NL /\ \A j \in 1..(i - 1) : str[j] # NL
  ELSE 0

\* pendingLines.join('').
RECURSIVE Join(_)
Join(lines) == IF lines = <<>> THEN <<>> ELSE Head(lines) \o Join(Tail(lines))

RECURSIVE SumTo(_, _)
SumTo(f, n) == IF n = 0 THEN 0 ELSE f[n] + SumTo(f, n - 1)

RECURSIVE ConcatTo(_, _)
ConcatTo(f, n) == IF n = 0 THEN <<>> ELSE ConcatTo(f, n - 1) \o f[n]

\* Chunk indices the model has room for.
ChunkIds == 1..(MaxLen + 2)

\* ------------------------------------------------------------------- state
VARIABLES
  pc,                 \* Idle, Prompt, Streaming, Finalizing, Completed, Failed, Refused
  src,                \* the source file's bytes
  sourceExists,       \* the source file is on disk
  outputDirExists,    \* the output directory is on disk
  mkdirCalled,        \* this run created the output directory
  input,              \* what the user last typed into the size prompt
  validationMessage,  \* validateInput's answer to it: TRUE when it was refused
  splitSizeInBytes,
  rpos,               \* characters the read stream has delivered
  buffer,
  pendingLines,
  pendingSize,
  currentFileIndex,
  currentFileSize,
  currentWriteStream, \* 0 for null, else the index of the chunk the stream writes
  linesInChunk,       \* lines appended to the current chunk so far
  wsState,            \* per chunk's write stream: none, open, ended, errored
  wsQueue,            \* per chunk: batches handed to write(), not yet on disk
  onDisk,             \* chunk files that exist in the output directory
  disk,               \* per chunk: the bytes of its file
  handed,             \* per chunk: all bytes ever handed to its write()
  createdSeq,         \* indices of the createWriteStream calls, in order
  closedSize,         \* per chunk: currentFileSize when the chunk was closed
  openedBy,           \* per chunk: the byte size of the first line appended to it
  decisions,          \* one record per rotation check
  progressReports,    \* progress.report calls
  writeErrors,        \* write-stream failures so far
  promise,            \* the job's promise: pending, resolved, rejected
  errorShown,         \* showErrorMessage was called
  warningShown,       \* showWarningMessage was called
  unlinkFailed,       \* fs.unlinkSync of the source threw
  statsFailed,        \* readdirSync or statSync threw in the end handler
  summary,            \* finalStats: whether it was reported, its file count and sizes
  now,                \* Date.now()
  lastProgressReport, \* the time of the last throttled log line (line 120)
  completionLogs,     \* the 'completed file k/estimated' lines of the output channel
  filePath,           \* the selected file: its directory, then its name
  pathStep,           \* how far the command is with the path: selected, rejected,
                      \* accepted (the extension check passed), derived
  fileName,           \* path.basename(filePath, '.log')
  outputDir,          \* path.join(fileDir, fileName)
  outputFilePath,     \* the path of the chunk file named last
  dlState,            \* downloadFile: requesting, receiving, done, stalled, crashed
  redirectCount,      \* redirectCount of the request in flight
  dlPromise,          \* downloadFile's promise: pending, resolved, rejected
  fileStream,         \* the write stream of destPath: none, opening, open, finished, errored
  destFile,           \* the file at destPath: absent, old, partial, complete
  responses           \* the responses received so far: status and Location header

splitVars == <<pc, src, sourceExists, outputDirExists, mkdirCalled, input,
          validationMessage, splitSizeInBytes, rpos, buffer, pendingLines,
          pendingSize, currentFileIndex, currentFileSize, currentWriteStream,
          linesInChunk, wsState, wsQueue, onDisk, disk, handed, createdSeq,
          closedSize, openedBy, decisions, progressReports, writeErrors, promise,
          errorShown, warningShown, unlinkFailed, statsFailed,
                 summary, now, lastProgressReport, completionLogs>>

\* The clock and what the throttle of the log lines works on.
logVars == <<now, lastProgressReport, completionLogs>>

pathVars == <<filePath, pathStep, fileName, outputDir, outputFilePath>>

\* What downloadFile of the download script works on.
downloadVars == <<dlState, redirectCount, dlPromise, fileStream, destFile, responses>>

vars == <<splitVars, pathVars, downloadVars>>

\* The variables the stream handlers work on, as one record.
engineVars == <<buffer, pendingLines, pendingSize, currentFileIndex,
                currentFileSize, currentWriteStream, linesInChunk, wsState,
                wsQueue, handed, createdSeq, closedSize, openedBy, decisions,
                progressReports>>

uiVars == <<input, validationMessage, errorShown, warningShown, unlinkFailed,
           statsFailed,
           summary>>

Engine ==
  [buffer |-> buffer, pendingLines |-> pendingLines, pendingSize |-> pendingSize,
   currentFileIndex |-> currentFileIndex, currentFileSize |-> currentFileSize,
   currentWriteStream |-> currentWriteStream, linesInChunk |-> linesInChunk,
   wsState |-> wsState, wsQueue |-> wsQueue, handed |-> handed,
   createdSeq |-> createdSeq, closedSize |-> closedSize, openedBy |-> openedBy,
   decisions |-> decisions, progressReports |-> progressReports]

Install(s) ==
  /\ buffer' = s.buffer
  /\ pendingLines' = s.pendingLines
  /\ pendingSize' = s.pendingSize
  /\ currentFileIndex' = s.currentFileIndex
  /\ currentFileSize' = s.currentFileSize
  /\ currentWriteStream' = s.currentWriteStream
  /\ linesInChunk' = s.linesInChunk
  /\ wsState' = s.wsState
  /\ wsQueue' = s.wsQueue
  /\ handed' = s.handed
  /\ createdSeq' = s.createdSeq
  /\ closedSize' = s.closedSize
  /\ openedBy' = s.openedBy
  /\ decisions' = s.decisions
  /\ progressReports' = s.progressReports

\* The characters the read stream delivers, whatever the cut.
Decoded == Utf8Decode(src)
fileSizeInBytes == Len(src)
fileSizeInMB == Len(src)

RECURSIVE SeqsUpTo(_)
SeqsUpTo(n) ==
  IF n = 0 THEN {<<>>}
  ELSE LET shorter == SeqsUpTo(n - 1)
       IN shorter \cup {Append(s, b) : s \in {t \in shorter : Len(t) = n - 1}, b \in SrcBytes}

\* What the user can type into the prompt: cancel, an empty string, something
\* parseFloat gives NaN for, or a number.
Inputs ==
  {<<"cancel">>, <<"empty">>, <<"NaN">>} \cup {<<"num", n>> : n \in (-1)..(MaxLen + 1)}

\* The command's state when it is invoked, apart from the selected file.
CommandState0 ==
  /\ pc = "Idle"
  /\ outputDirExists \in BOOLEAN
  /\ mkdirCalled = FALSE
  /\ input = <<"none">>
  /\ validationMessage = FALSE
  /\ splitSizeInBytes = 0
  /\ rpos = 0
  /\ buffer = <<>>
  /\ pendingLines = <<>>
  /\ pendingSize = 0
  /\ currentFileIndex = 1
  /\ currentFileSize = 0
  /\ currentWriteStream = 0
  /\ linesInChunk = 0
  /\ wsState = [k \in ChunkIds |-> "none"]
  /\ wsQueue = [k \in ChunkIds |-> <<>>]
  /\ onDisk = {}
  /\ disk = [k \in ChunkIds |-> <<>>]
  /\ handed = [k \in ChunkIds |-> <<>>]
  /\ createdSeq = <<>>
  /\ closedSize = [k \in ChunkIds |-> 0]
  /\ openedBy = [k \in ChunkIds |-> 0]
  /\ decisions = <<>>
  /\ progressReports = 0
  /\ writeErrors = 0
  /\ promise = "pending"
  /\ errorShown = FALSE
  /\ warningShown = FALSE
  /\ unlinkFailed = FALSE
  /\ statsFailed = FALSE
  /\ summary = [shown |-> FALSE, count |-> 0, sizes |-> [k \in ChunkIds |-> 0]]
  /\ now = 0
  /\ lastProgressReport = 0
  /\ completionLogs = <<>>
  /\ dlState = "requesting"
  /\ redirectCount = 0
  /\ dlPromise = "pending"
  /\ fileStream = "none"
  /\ responses = <<>>

SplitInit ==
  /\ src \in SeqsUpTo(MaxLen)
  /\ sourceExists = TRUE
  /\ destFile = "absent"
  /\ CommandState0

\* ------------------------------------------------------------------ paths
\* A file name is a sequence of pieces: a letter, a dot, or the letters l-o-g in
\* lower, upper or mixed case.  A path is the directory's name, then the file's.
NamePieces == {"a", ".", "log", "LOG", "Log"}
DotLog == <<".", "log">>
Dir == <<"d">>

RECURSIVE NamesUpTo(_)
NamesUpTo(n) ==
  IF n = 0 THEN {<<>>}
  ELSE LET shorter == NamesUpTo(n - 1)
       IN shorter \cup {Append(s, c) : s \in {x \in shorter : Len(x) = n - 1},
                                      c \in NamePieces}

\* path.basename(p), path.dirname(p), path.join(dir, name).
BaseOf(path) == path[Len(path)]
DirOf(path) == SubSeq(path, 1, Len(path) - 1)
PathJoin(dir, name) == Append(dir, name)

\* The index of the last dot of a name, 0 when it has none.
LastDot(name) ==
  LET dots == {i \in 1..Len(name) : name[i] = "."}
  IN IF dots = {} THEN 0 ELSE CHOOSE i \in dots : \A j \in dots : j <= i

\* path.extname: from the last dot to the end; empty when there is no dot, when
\* the only dot starts the name, and for "..".
ExtName(name) ==
  IF LastDot(name) <= 1 \/ name = <<".", ".">> THEN <<>>
  ELSE SubSeq(name, LastDot(name), Len(name))

\* String.prototype.toLowerCase.
LowerPiece(c) == IF c \in {"LOG", "Log"} THEN "log" ELSE c
ToLowerCase(name) == [i \in 1..Len(name) |-> LowerPiece(name[i])]

\* path.basename(p, suffix): the suffix is cut off when the name ends with it,
\* letter case included, and is more than it.
BaseName(name, suffix) ==
  IF /\ Len(name) > Len(suffix)
     /\ SubSeq(name, Len(name) - Len(suffix) + 1, Len(name)) = suffix
  THEN SubSeq(name, 1, Len(name) - Len(suffix))
  ELSE name

\* Lines 173 and 203: `${fileName}_${currentFileIndex}.log`.
ChunkFileName(name, k) == name \o <<"_", ToString(k)>> \o DotLog

NoPath == <<>>

\* Lines 13-29: no file is selected (no uri and no active editor), or the
\* selected file does not exist.
CheckFile ==
  /\ pc = "Idle"
  /\ pathStep = "selected"
  /\ filePath = NoPath \/ ~sourceExists
  /\ pathStep' = "rejected"
  /\ errorShown' = TRUE
  /\ UNCHANGED <<pc, src, sourceExists, outputDirExists, mkdirCalled, input,
                 validationMessage, splitSizeInBytes, rpos, engineVars, onDisk,
                 disk, writeErrors, promise, warningShown, unlinkFailed,
                 statsFailed, summary>>
  /\ UNCHANGED <<filePath, fileName, outputDir, outputFilePath>>
  /\ UNCHANGED <<logVars, downloadVars>>

\* Lines 31-36: the extension check.
CheckExtension ==
  /\ pathStep = "selected"
  /\ filePath # NoPath /\ sourceExists
  /\ pathStep' = IF ToLowerCase(ExtName(BaseOf(filePath))) # DotLog
                 THEN "rejected" ELSE "accepted"
  /\ UNCHANGED <<filePath, fileName, outputDir, outputFilePath, splitVars,
                 downloadVars>>

\* Lines 97-101: fileName, fileDir and outputDir.
DeriveOutputDir ==
  /\ pathStep = "accepted"
  /\ pathStep' = "derived"
  /\ fileName' = BaseName(BaseOf(filePath), DotLog)
  /\ outputDir' = PathJoin(DirOf(filePath), BaseName(BaseOf(filePath), DotLog))
  /\ UNCHANGED <<filePath, outputFilePath, splitVars, downloadVars>>

\* Lines 172-173 and 202-203: the path of chunk k.
NameChunk(k) ==
  /\ pathStep = "derived"
  /\ outputFilePath' = PathJoin(outputDir, ChunkFileName(fileName, k))
  /\ UNCHANGED <<filePath, pathStep, fileName, outputDir, splitVars, downloadVars>>

\* The splitter's runs are followed for one file, d/a.log, whose paths are
\* derived as the command derives them.
SplitPath == PathJoin(Dir, <<"a">> \o DotLog)

Init ==
  /\ SplitInit
  /\ filePath = SplitPath
  /\ pathStep = "derived"
  /\ fileName = BaseName(BaseOf(SplitPath), DotLog)
  /\ outputDir = PathJoin(DirOf(SplitPath), BaseName(BaseOf(SplitPath), DotLog))
  /\ outputFilePath = NoPath

\* The path handling alone, for every file name of up to MaxNameLen pieces.
PathInit ==
  /\ SplitInit
  /\ src = <<>>
  /\ outputDirExists = FALSE
  /\ filePath \in {PathJoin(Dir, name) : name \in NamesUpTo(MaxNameLen) \ {<<>>}}
  /\ pathStep = "selected"
  /\ fileName = <<>>
  /\ outputDir = NoPath
  /\ outputFilePath = NoPath

PathNext ==
  \/ CheckExtension
  \/ DeriveOutputDir
  \/ \E k \in ChunkIds : NameChunk(k)

PathSpec == PathInit /\ [][PathNext]_vars
\* ------------------------------------------------------- the stream handlers
\* stream.write(batch) on chunk k's stream: queued while the stream is open,
\* dropped by a stream an error has destroyed.
WriteTo(s, k, bytes) ==
  [s EXCEPT !.handed[k] = @ \o bytes,
            !.wsQueue[k] = IF s.wsState[k] = "open" THEN Append(@, bytes) ELSE @]

\* Variant of EndStream with a fault: end() leaves the stream accepting writes.
EndStreamKeepsOpen(state) == state

\* stream.end(): no effect on a destroyed stream.
EndStream(state) == IF state = "open" THEN "ended" ELSE state

\* Variant of flushPendingLines with a fault: the flushed bytes are not added to
\* the chunk's counter.
flushKeepsCount(s) ==
  IF Len(s.pendingLines) > 0 /\ s.currentWriteStream # 0
  THEN LET batch == Join(s.pendingLines)
       IN [WriteTo(s, s.currentWriteStream, Utf8Encode(batch))
             EXCEPT !.pendingLines = <<>>,
                    !.pendingSize = 0]
  ELSE s

\* flushPendingLines (lines 127-135): one write of the joined batch.
flushPendingLines(s) ==
  IF Len(s.pendingLines) > 0 /\ s.currentWriteStream # 0
  THEN LET batch == Join(s.pendingLines)
       IN [WriteTo(s, s.currentWriteStream, Utf8Encode(batch))
             EXCEPT !.currentFileSize = @ + ByteLength(batch),
                    !.pendingLines = <<>>,
                    !.pendingSize = 0]
  ELSE s

\* Variant of ShouldRotate with a fault: an empty chunk is rotated away too.
ShouldRotateWhenEmpty(s, lineSize) ==
  s.currentFileSize + s.pendingSize + lineSize > splitSizeInBytes

\* Variant of ShouldRotate with a fault: rotates already when the line fills the chunk to the target.
ShouldRotateAtTarget(s, lineSize) ==
  /\ s.currentWriteStream # 0
  /\ s.currentFileSize + s.pendingSize + lineSize >= splitSizeInBytes

\* The condition of lines 149-150.
ShouldRotate(s, lineSize) ==
  /\ s.currentWriteStream # 0
  /\ s.currentFileSize + s.pendingSize + lineSize > splitSizeInBytes

\* Variant of NextFileIndex with a fault: skips an index.
NextFileIndexSkips(i) == i + 2

\* The index the rotation of line 155 moves to.
NextFileIndex(i) == i + 1

\* Variant of Rotate with a fault: the chunk is closed without flushing the batch.
RotateWithoutFlush(s) ==
  LET k == s.currentWriteStream
  IN [s EXCEPT !.wsState[k] = EndStream(@),
               !.closedSize[k] = s.currentFileSize,
               !.currentWriteStream = 0,
               !.currentFileIndex = NextFileIndex(@),
               !.currentFileSize = 0,
               !.linesInChunk = 0,
               !.progressReports = @ + 1]

\* Variant of Rotate with a fault: the ended stream stays the current one.
RotateKeepsStream(s) ==
  LET f == flushPendingLines(s)
      k == f.currentWriteStream
  IN [f EXCEPT !.wsState[k] = EndStream(@),
               !.closedSize[k] = f.currentFileSize,
               !.currentFileIndex = NextFileIndex(@),
               !.currentFileSize = 0,
               !.linesInChunk = 0,
               !.progressReports = @ + 1]

\* Lines 151-167: flush, end the stream, move to the next index, report.
Rotate(s) ==
  LET f == flushPendingLines(s)
      k == f.currentWriteStream
  IN [f EXCEPT !.wsState[k] = EndStream(@),
               !.closedSize[k] = f.currentFileSize,
               !.currentWriteStream = 0,
               !.currentFileIndex = NextFileIndex(@),
               !.currentFileSize = 0,
               !.linesInChunk = 0,
               !.progressReports = @ + 1]

\* fs.createWriteStream for the chunk of the current index (lines 172-177, 202-207).
CreateChunk(s) ==
  LET k == s.currentFileIndex
  IN [s EXCEPT !.currentWriteStream = k,
               !.wsState[k] = "open",
               !.createdSeq = Append(@, k)]

\* Variant of LineOf with a fault: the line without its newline.
LineOfDropsNewline(str, newlineIndex) == SubSeq(str, 1, newlineIndex - 1)

\* buffer.substring(0, newlineIndex + 1): the line with its newline.
LineOf(str, newlineIndex) == SubSeq(str, 1, newlineIndex)

\* buffer.substring(newlineIndex + 1).
RestOf(str, newlineIndex) == SubSeq(str, newlineIndex + 1, Len(str))

\* Variant of PushLine with a fault: progress is reported for every line.
PushLineReports(s, line, lineSize) ==
  [s EXCEPT !.pendingLines = Append(@, line),
            !.pendingSize = @ + lineSize,
            !.linesInChunk = @ + 1,
            !.openedBy[s.currentFileIndex] = IF s.linesInChunk = 0 THEN lineSize ELSE @,
            !.progressReports = @ + 1]

\* pendingLines.push(line); pendingSize += lineSize.
PushLine(s, line, lineSize) ==
  [s EXCEPT !.pendingLines = Append(@, line),
            !.pendingSize = @ + lineSize,
            !.linesInChunk = @ + 1,
            !.openedBy[s.currentFileIndex] = IF s.linesInChunk = 0 THEN lineSize ELSE @]

\* Variant of FlushIfBatchFull with a fault: the batch is flushed only once it
\* holds more lines than the threshold.
FlushIfBatchOver(s) ==
  IF Len(s.pendingLines) > BATCH_SIZE THEN flushPendingLines(s) ELSE s

\* Lines 189-192.
FlushIfBatchFull(s) ==
  IF Len(s.pendingLines) >= BATCH_SIZE THEN flushPendingLines(s) ELSE s

\* Variant of ProcessLine with a fault: the chunk is created before the rotation
\* check instead of after it.
ProcessLineCreatesFirst(s, newlineIndex) ==
  LET line == LineOf(s.buffer, newlineIndex)
      b == [s EXCEPT !.buffer = RestOf(s.buffer, newlineIndex)]
      lineSize == ByteLength(line)
      o == IF b.currentWriteStream = 0 THEN CreateChunk(b) ELSE b
      rotate == ShouldRotate(o, lineSize)
      r == IF rotate THEN Rotate(o) ELSE o
      c == IF r.currentWriteStream = 0 THEN CreateChunk(r) ELSE r
      d == [index |-> b.currentFileIndex, flushed |-> b.currentFileSize,
            pending |-> b.pendingSize, lineSize |-> lineSize,
            held |-> b.linesInChunk, rotated |-> rotate,
            into |-> c.currentFileIndex]
      q == PushLine(c, line, lineSize)
      f == FlushIfBatchFull(q)
      e == [batch |-> Len(q.pendingLines), kept |-> Len(f.pendingLines)]
  IN [f EXCEPT !.decisions = Append(@, d @@ e)]

\* One pass of the while loop of lines 143-195 for the line ending at newlineIndex.
ProcessLine(s, newlineIndex) ==
  LET line == LineOf(s.buffer, newlineIndex)
      b == [s EXCEPT !.buffer = RestOf(s.buffer, newlineIndex)]
      lineSize == ByteLength(line)
      rotate == ShouldRotate(b, lineSize)
      r == IF rotate THEN Rotate(b) ELSE b
      c == IF r.currentWriteStream = 0 THEN CreateChunk(r) ELSE r
      d == [index |-> b.currentFileIndex, flushed |-> b.currentFileSize,
            pending |-> b.pendingSize, lineSize |-> lineSize,
            held |-> b.linesInChunk, rotated |-> rotate,
            into |-> c.currentFileIndex]
      q == PushLine(c, line, lineSize)
      f == FlushIfBatchFull(q)
      e == [batch |-> Len(q.pendingLines), kept |-> Len(f.pendingLines)]
  IN [f EXCEPT !.decisions = Append(@, d @@ e)]

\* Variant of ProcessLines with a fault: a callback returns after the first line
\* of its chunk.
ProcessLinesOnce(s) ==
  LET newlineIndex == IndexOfNewline(s.buffer)
  IN IF newlineIndex = 0 THEN s ELSE ProcessLine(s, newlineIndex)

\* The while loop of lines 142-195.
RECURSIVE ProcessLines(_)
ProcessLines(s) ==
  LET newlineIndex == IndexOfNewline(s.buffer)
  IN IF newlineIndex = 0 THEN s ELSE ProcessLines(ProcessLine(s, newlineIndex))

\* Variant of OnData with a fault: what the previous callback left in the buffer
\* is overwritten by the new chunk.
OnDataDropsCarry(s, chunk) == ProcessLines([s EXCEPT !.buffer = chunk])

\* readStream.on('data') (lines 138-196).
OnData(s, chunk) == ProcessLines([s EXCEPT !.buffer = @ \o chunk])

\* Variant of OnEndFlush with a fault: what is left in the buffer is dropped.
OnEndFlushDropsRemainder(s) ==
  LET f == flushPendingLines([s EXCEPT !.buffer = <<>>])
      k == f.currentWriteStream
  IN IF k # 0
     THEN [f EXCEPT !.wsState[k] = EndStream(@), !.closedSize[k] = f.currentFileSize]
     ELSE f

\* Variant of OnEndFlush with a fault: the remainder is pushed without making
\* sure that a chunk stream exists.
OnEndFlushSkipsCreate(s) ==
  LET r == IF Len(s.buffer) > 0
           THEN [PushLine(s, s.buffer, ByteLength(s.buffer)) EXCEPT !.buffer = <<>>]
           ELSE s
      f == flushPendingLines(r)
      k == f.currentWriteStream
  IN IF k # 0
     THEN [f EXCEPT !.wsState[k] = EndStream(@), !.closedSize[k] = f.currentFileSize]
     ELSE f

\* Lines 199-224 of readStream.on('end'): the remainder, the last flush, end().
OnEndFlush(s) ==
  LET r == IF Len(s.buffer) > 0
           THEN LET c == IF s.currentWriteStream = 0 THEN CreateChunk(s) ELSE s
                IN [PushLine(c, s.buffer, ByteLength(s.buffer)) EXCEPT !.buffer = <<>>]
           ELSE s
      f == flushPendingLines(r)
      k == f.currentWriteStream
  IN IF k # 0
     THEN [f EXCEPT !.wsState[k] = EndStream(@), !.closedSize[k] = f.currentFileSize]
     ELSE f

\* Variant of OnErrorClose with a fault: the open chunk stream is not ended.
OnErrorLeavesOpen(s) == s

\* Lines 267-269 of readStream.on('error').
OnErrorClose(s) ==
  IF s.currentWriteStream # 0
  THEN [s EXCEPT !.wsState[s.currentWriteStream] = EndStream(@)]
  ELSE s

\* ----------------------------------------------------------------- actions
\* Variant of ValidateInput with a fault: the comparison with the file's size is missing.
ValidateInputNoUpperBound(value) ==
  CASE value[1] = "empty" -> FALSE
    [] value[1] = "NaN" -> TRUE
    [] OTHER -> value[2] <= 0

\* validateInput (lines 55-67): TRUE when it answers with a message.
ValidateInput(value) ==
  CASE value[1] = "empty" -> FALSE
    [] value[1] = "NaN" -> TRUE
    [] OTHER -> value[2] <= 0 \/ value[2] > fileSizeInMB

\* Lines 75-77.
ParseSplitSize(value) == IF value[1] = "empty" THEN DefaultSplitSize ELSE value[2]

\* Variant of TooSmallToSplit with a fault: an empty file passes the size check.
TooSmallToSplitButEmpty(sizeInMB) == sizeInMB > 0 /\ sizeInMB <= NoSplitLimit

\* Line 43: fileSizeInMB <= 800.
TooSmallToSplit(sizeInMB) == sizeInMB <= NoSplitLimit

\* Variant of CheckSize with a fault: the output directory is made before the
\* size is looked at.
CheckSizeMakesDir ==
  /\ pc = "Idle"
  /\ pathStep \in {"accepted", "derived"}
  /\ IF TooSmallToSplit(fileSizeInMB)
     THEN pc' = "Refused" /\ warningShown' = TRUE
     ELSE pc' = "Prompt" /\ UNCHANGED warningShown
  /\ outputDirExists' = TRUE
  /\ mkdirCalled' = ~outputDirExists
  /\ UNCHANGED <<src, sourceExists, input,
                 validationMessage, splitSizeInBytes, rpos, engineVars, onDisk,
                 disk, writeErrors, promise, errorShown, unlinkFailed, statsFailed,
                 summary>>
  /\ UNCHANGED <<pathVars, downloadVars>>
  /\ UNCHANGED logVars

\* Lines 38-48: a file of at most the limit is not split.
CheckSize ==
  /\ pc = "Idle"
  /\ pathStep \in {"accepted", "derived"}
  /\ IF TooSmallToSplit(fileSizeInMB)
     THEN pc' = "Refused" /\ warningShown' = TRUE
     ELSE pc' = "Prompt" /\ UNCHANGED warningShown
  /\ UNCHANGED <<src, sourceExists, outputDirExists, mkdirCalled, input,
                 validationMessage, splitSizeInBytes, rpos, engineVars, onDisk,
                 disk, writeErrors, promise, errorShown, unlinkFailed, statsFailed,
                 summary>>
  /\ UNCHANGED <<pathVars, downloadVars>>
  /\ UNCHANGED logVars

\* The input box keeps a value validateInput refuses: it cannot be submitted.
RejectInput(value) ==
  /\ pc = "Prompt"
  /\ value[1] # "cancel"
  /\ ValidateInput(value)
  /\ input' = value
  /\ validationMessage' = TRUE
  /\ UNCHANGED <<pc, src, sourceExists, outputDirExists, mkdirCalled,
                 splitSizeInBytes, rpos, engineVars, onDisk, disk, writeErrors,
                 promise, errorShown, warningShown, unlinkFailed, statsFailed,
                 summary>>
  /\ UNCHANGED <<pathVars, downloadVars>>
  /\ UNCHANGED logVars

\* Lines 70-73: the user cancels the prompt.
CancelInput ==
  /\ pc = "Prompt"
  /\ pc' = "Refused"
  /\ input' = <<"cancel">>
  /\ validationMessage' = FALSE
  /\ UNCHANGED <<src, sourceExists, outputDirExists, mkdirCalled,
                 splitSizeInBytes, rpos, engineVars, onDisk, disk, writeErrors,
                 promise, errorShown, warningShown, unlinkFailed, statsFailed,
                 summary>>
  /\ UNCHANGED <<pathVars, downloadVars>>
  /\ UNCHANGED logVars

\* Lines 75-124: an accepted value; the output directory is made when it is not
\* there (mkdirSync may throw, which the catch of lines 285-297 reports), and the
\* read stream is opened.
AcceptInput(value, mkdirOk) ==
  /\ pc = "Prompt"
  /\ value[1] # "cancel"
  /\ ~ValidateInput(value)
  /\ input' = value
  /\ validationMessage' = FALSE
  /\ splitSizeInBytes' = ParseSplitSize(value)
  /\ IF outputDirExists
     THEN pc' = "Streaming" /\ UNCHANGED <<outputDirExists, mkdirCalled, errorShown>>
     ELSE IF mkdirOk
          THEN /\ pc' = "Streaming"
               /\ outputDirExists' = TRUE
               /\ mkdirCalled' = TRUE
               /\ UNCHANGED errorShown
          ELSE /\ pc' = "Failed"
               /\ errorShown' = TRUE
               /\ UNCHANGED <<outputDirExists, mkdirCalled>>
  /\ lastProgressReport' = IF outputDirExists \/ mkdirOk THEN now ELSE lastProgressReport
  /\ UNCHANGED <<src, sourceExists, rpos, engineVars, onDisk, disk, writeErrors,
                 promise, warningShown, unlinkFailed, statsFailed,
                 summary, now, completionLogs>>
  /\ UNCHANGED <<pathVars, downloadVars>>

\* Math.ceil(fileSizeInBytes / splitSizeInBytes) (line 123).
estimatedFiles == (fileSizeInBytes + splitSizeInBytes - 1) \div splitSizeInBytes

\* The line 'completed file k/estimated' written to the output channel at the
\* clock's present time (lines 160-161, 222-223).
CompletionLog(k) == [time |-> now, index |-> k, estimated |-> estimatedFiles]

\* Lines 157-163: the callback that took the handlers to s rotated, and more
\* than the interval has passed since the last throttled line.  The clock is
\* read as one value throughout a callback, so of the rotations of one callback
\* only the first can pass the throttle.
RotationLogged(s) ==
  /\ s.currentFileIndex > currentFileIndex
  /\ now - lastProgressReport > LogInterval

\* readStream 'data': the next n characters of the file.
Data(n) ==
  /\ pc = "Streaming"
  /\ rpos + n <= Len(Decoded)
  /\ rpos' = rpos + n
  /\ Install(OnData(Engine, SubSeq(Decoded, rpos + 1, rpos + n)))
  /\ IF RotationLogged(OnData(Engine, SubSeq(Decoded, rpos + 1, rpos + n)))
     THEN /\ completionLogs' = Append(completionLogs, CompletionLog(currentFileIndex))
          /\ lastProgressReport' = now
     ELSE UNCHANGED <<completionLogs, lastProgressReport>>
  /\ UNCHANGED <<pc, src, sourceExists, outputDirExists, mkdirCalled,
                 splitSizeInBytes, onDisk, disk, writeErrors, promise, uiVars, now>>
  /\ UNCHANGED <<pathVars, downloadVars>>

\* Variant of UnlinksSource with a fault: every handler deletes the source.
UnlinksSourceAlways(handler) == TRUE

\* The handlers that call fs.unlinkSync(filePath): 'end' alone (line 228).
UnlinksSource(handler) == handler = "end"

\* Whether the source is on disk after a handler that found it there (or not):
\* unlinkSync removes it unless it throws.
SourceAfter(handler, exists, unlinkOk) ==
  IF UnlinksSource(handler) THEN exists /\ ~unlinkOk ELSE exists

\* Variant of EndOutcome with a fault: a throwing unlinkSync rejects the promise.
EndOutcomeRejects(unlinkOk) ==
  IF unlinkOk
  THEN [pc |-> "Completed", promise |-> "resolved", warning |-> FALSE]
  ELSE [pc |-> "Failed", promise |-> "rejected", warning |-> FALSE]

\* How 'end' settles the job (lines 227-235, 263): a throwing unlinkSync is
\* caught and reported as a warning, and the promise is resolved either way.
EndOutcome(unlinkOk) ==
  [pc |-> "Completed", promise |-> "resolved", warning |-> ~unlinkOk]

\* finalStats (lines 238-247): the .log files the output directory holds now.
FinalStats ==
  [shown |-> TRUE, count |-> Cardinality(onDisk),
   sizes |-> [k \in ChunkIds |-> IF k \in onDisk THEN Len(disk[k]) ELSE 0]]

\* readStream 'end' (lines 198-264).  readdirSync and statSync (lines 238-247)
\* are called outside any try: when one of them throws, the handler is left
\* after the unlink and its warning, the exception is the event emitter's, and
\* neither resolve nor reject is called: the job stays in its finalizing.
End(unlinkOk, statsOk) ==
  /\ pc = "Streaming"
  /\ rpos = Len(Decoded)
  /\ Install(OnEndFlush(Engine))
  /\ sourceExists' = SourceAfter("end", sourceExists, unlinkOk)
  /\ unlinkFailed' = ~unlinkOk
  /\ statsFailed' = ~statsOk
  /\ warningShown' = (warningShown \/ EndOutcome(unlinkOk).warning)
  /\ IF statsOk
     THEN /\ summary' = FinalStats
          /\ promise' = EndOutcome(unlinkOk).promise
          /\ pc' = EndOutcome(unlinkOk).pc
          /\ errorShown' = (errorShown \/ EndOutcome(unlinkOk).promise = "rejected")
     ELSE /\ pc' = "Finalizing"
          /\ UNCHANGED <<summary, promise, errorShown>>
  /\ completionLogs' = IF OnEndFlush(Engine).currentWriteStream # 0
                       THEN Append(completionLogs, CompletionLog(currentFileIndex))
                       ELSE completionLogs
  /\ UNCHANGED <<src, outputDirExists, mkdirCalled, input, validationMessage,
                 splitSizeInBytes, rpos, onDisk, disk, writeErrors, now,
                 lastProgressReport>>
  /\ UNCHANGED <<pathVars, downloadVars>>

\* readStream 'error' (lines 266-273), then the catch of lines 285-297.
ReadError ==
  /\ pc = "Streaming"
  /\ Install(OnErrorClose(Engine))
  /\ promise' = "rejected"
  /\ errorShown' = TRUE
  /\ pc' = "Failed"
  /\ sourceExists' = SourceAfter("error", sourceExists, TRUE)
  /\ UNCHANGED <<src, outputDirExists, mkdirCalled, input, validationMessage,
                 splitSizeInBytes, rpos, onDisk, disk, writeErrors,
                 warningShown, unlinkFailed, statsFailed,
                 summary>>
  /\ UNCHANGED <<pathVars, downloadVars>>
  /\ UNCHANGED logVars

\* A write stream opens its file: created, or truncated, in the output directory.
WsOpen(k) ==
  /\ wsState[k] \in {"open", "ended"}
  /\ k \notin onDisk
  /\ onDisk' = onDisk \cup {k}
  /\ disk' = [disk EXCEPT ![k] = <<>>]
  /\ UNCHANGED <<pc, src, sourceExists, outputDirExists, mkdirCalled,
                 splitSizeInBytes, rpos, engineVars, writeErrors, promise, uiVars>>
  /\ UNCHANGED <<pathVars, downloadVars>>
  /\ UNCHANGED logVars

\* A write stream writes its oldest queued batch to its file.
WsWrite(k) ==
  /\ wsState[k] \in {"open", "ended"}
  /\ k \in onDisk
  /\ wsQueue[k] # <<>>
  /\ disk' = [disk EXCEPT ![k] = @ \o Head(wsQueue[k])]
  /\ wsQueue' = [wsQueue EXCEPT ![k] = Tail(@)]
  /\ UNCHANGED <<pc, src, sourceExists, outputDirExists, mkdirCalled,
                 splitSizeInBytes, rpos, buffer, pendingLines, pendingSize,
                 currentFileIndex, currentFileSize, currentWriteStream,
                 linesInChunk, wsState, handed, createdSeq, closedSize, openedBy,
                 decisions, progressReports, onDisk, writeErrors, promise, uiVars>>
  /\ UNCHANGED <<pathVars, downloadVars>>
  /\ UNCHANGED logVars

\* An ended write stream whose file is open and holds everything it was handed
\* has finished: nothing more happens to its file.
Closed(k) == wsState[k] = "ended" /\ k \in onDisk /\ wsQueue[k] = <<>>

\* A write stream emits 'error' (disk full, ...).  The stream is destroyed and the
\* data it still held is lost.  No 'error' listener is attached to the stream
\* (lines 174-177, 204-207), so nothing of the job's own state changes: the
\* extension host logs the uncaught error and goes on.
WsError(k) ==
  /\ wsState[k] \in {"open", "ended"}
  /\ writeErrors < MaxWriteErrors
  /\ writeErrors' = writeErrors + 1
  /\ wsState' = [wsState EXCEPT ![k] = "errored"]
  /\ wsQueue' = [wsQueue EXCEPT ![k] = <<>>]
  /\ UNCHANGED <<pc, src, sourceExists, outputDirExists, mkdirCalled,
                 splitSizeInBytes, rpos, buffer, pendingLines, pendingSize,
                 currentFileIndex, currentFileSize, currentWriteStream,
                 linesInChunk, handed, createdSeq, closedSize, openedBy, decisions,
                 progressReports, onDisk, disk, promise, uiVars>>
  /\ UNCHANGED <<pathVars, downloadVars>>
  /\ UNCHANGED logVars

Next ==
  \/ CheckSize
  \/ \E value \in Inputs : RejectInput(value)
  \/ CancelInput
  \/ \E value \in Inputs, mkdirOk \in BOOLEAN : AcceptInput(value, mkdirOk)
  \/ \E n \in 1..HighWaterMark : Data(n)
  \/ \E unlinkOk, statsOk \in BOOLEAN : End(unlinkOk, statsOk)
  \/ ReadError
  \/ \E k \in ChunkIds : WsOpen(k)
  \/ \E k \in ChunkIds : WsWrite(k)
  \/ \E k \in ChunkIds : WsError(k)

Spec == Init /\ [][Next]_vars
\* ------------------------------------------------------------------ claims
IsPrefix(a, b) == Len(a) <= Len(b) /\ SubSeq(b, 1, Len(a)) = a

\* The chunks this run has created.
Created == 1..Len(createdSeq)

\* The bytes of the source as the utf8 read stream delivers them.
Encoded == Utf8Encode(Decoded)

\* What the splitter makes of a piece of the source: decoded by the read stream,
\* encoded by a write stream.
Reencode(bytes) == Utf8Encode(Utf8Decode(bytes))

\* Offsets in the source at which a line starts: 0, and after every newline byte.
LineStarts == {0} \cup {p \in 1..Len(src) : src[p] = NL}

Rotations == {i \in 1..Len(decisions) : decisions[i].rotated}

\* C1: when the run has completed and every chunk stream has closed, the chunk
\* files 1..N concatenated in index order are the source file byte for byte, and
\* the flushed byte counts of the chunks add up to the source file's size.
C1_OutputReproducesSource ==
  (pc = "Completed" /\ \A k \in Created : Closed(k))
    => /\ ConcatTo(disk, Len(createdSeq)) = src
       /\ SumTo(closedSize, Len(createdSeq)) = fileSizeInBytes

\* C2: no line is split across two chunk files, however the read stream cuts the
\* input: every chunk starts at the first byte of a source line (what the chunks
\* before it were handed is the source up to an offset where a line starts), the
\* chunks hold consecutive pieces of the source, every chunk but the last ends
\* with a newline byte, and a chunk's file holds a prefix of what the chunk was
\* handed.
C2_NoLineSplit ==
  \A k \in Created :
    /\ \E p \in LineStarts : ConcatTo(handed, k - 1) = Reencode(SubSeq(src, 1, p))
    /\ IsPrefix(ConcatTo(handed, k), Encoded)
    /\ k < Len(createdSeq) => handed[k] # <<>> /\ handed[k][Len(handed[k])] = NL
    /\ IsPrefix(disk[k], handed[k])

\* A line spans several data callbacks: a callback has returned with the start
\* of a line in the buffer and the rest of the file still to come, after a
\* rotation, with the first chunk written out in full and a line pending for
\* the second.
C2_Witness ==
  /\ pc = "Streaming"
  /\ buffer # <<>>
  /\ rpos < Len(Decoded)
  /\ Len(createdSeq) >= 2
  /\ Closed(1) /\ disk[1] = handed[1] /\ disk[1] # <<>>
  /\ pendingLines # <<>>

\* C3: the chunks created carry the indices 1..N in order, without gap or
\* repeat: the index starts at 1, each rotation adds exactly 1 to it, after
\* every handler the chunk of the current index has been created, and the chunk
\* files on disk are those of 1..N once every stream has finished.
C3_ContiguousIndices ==
  /\ \A i \in Created : createdSeq[i] = i
  /\ currentFileIndex = IF createdSeq = <<>> THEN 1 ELSE Len(createdSeq)
  /\ currentFileIndex = 1 + Cardinality(Rotations)
  /\ currentWriteStream = IF createdSeq = <<>> THEN 0 ELSE currentFileIndex
  /\ onDisk \subseteq Created
  /\ (\A k \in Created : Closed(k)) => onDisk = Created

\* A run that has rotated twice.
C3_Witness == Cardinality(Rotations) >= 2 /\ Len(createdSeq) = 3

\* C4: the source is deleted only after all chunks are written: when the source
\* is gone, no chunk stream holds unwritten data and none has failed.
C4_SourceDeletedAfterChunksWritten ==
  ~sourceExists => \A k \in ChunkIds : wsQueue[k] = <<>> /\ wsState[k] # "errored"

IsNumber(value) == value[1] = "num"

\* The run entered Streaming, made the output directory or created a chunk.
Ran ==
  \/ pc \in {"Streaming", "Completed"}
  \/ promise # "pending"
  \/ mkdirCalled
  \/ createdSeq # <<>>

C6_ReadFailure ==
  promise = "rejected"
    => /\ pc = "Failed"
       /\ errorShown
       /\ sourceExists
       /\ \A k \in ChunkIds : wsState[k] # "open"

\* A read error that arrived with a chunk open and lines still pending.
C6_Witness ==
  /\ promise = "rejected"
  /\ currentWriteStream # 0
  /\ pendingLines # <<>>

\* C7: once a chunk's write stream has failed during streaming, the job does
\* not go on to Completed.
C7_WriteFailureFailsJob ==
  [][(pc = "Streaming" /\ writeErrors > 0) => pc' # "Completed"]_vars

\* C8: when deleting the source fails, the job is still Completed: the promise is
\* resolved, a warning and the summary are shown, no error is shown, and every
\* chunk that was written out is on disk in full.  (Completed and the summary
\* are for the runs in which reading the output directory did not throw as
\* well; the warning, the kept files and the absence of an error are for all.)
C8_DeleteFailureNotFatal ==
  unlinkFailed
    => /\ ~statsFailed =>
            /\ pc = "Completed"
            /\ promise = "resolved"
            /\ summary.shown
       /\ warningShown
       /\ ~errorShown
       /\ promise # "rejected"
       /\ sourceExists
       /\ \A k \in Created : Closed(k) => k \in onDisk /\ disk[k] = handed[k]

\* A failed deletion after a run of two chunks, both written out.
C8_Witness ==
  /\ unlinkFailed
  /\ pc = "Completed"
  /\ Len(createdSeq) >= 2
  /\ \A k \in Created : Closed(k)

\* C9: no step that enters or stays in Failed deletes the source, removes a
\* chunk file or takes bytes away from one.
C9_FailedKeepsFiles ==
  [][pc' = "Failed"
       => /\ sourceExists'
          /\ onDisk \subseteq onDisk'
          /\ \A k \in onDisk : IsPrefix(disk[k], disk'[k])]_vars

\* A failed run that leaves one chunk complete on disk and a later one partial.
C9_Witness ==
  /\ pc = "Failed"
  /\ promise = "rejected"
  /\ \E k \in onDisk : Closed(k) /\ disk[k] # <<>>
  /\ currentWriteStream \in onDisk
  /\ pendingLines # <<>>

\* C10: for every newline-terminated line, a rotation precedes its append iff
\* flushed + pending + line size is strictly greater than the target and the
\* current chunk already holds a line.
C10_RotationRule ==
  \A i \in 1..Len(decisions) :
    LET d == decisions[i]
    IN d.rotated <=> (d.flushed + d.pending + d.lineSize > splitSizeInBytes /\ d.held > 0)

\* A run in which one line rotated, one line filled its chunk to exactly the
\* target without rotating, and one line larger than the target went into an
\* empty chunk.
C10_Witness ==
  /\ \E i \in 1..Len(decisions) : decisions[i].rotated
  /\ \E i \in 1..Len(decisions) :
       /\ ~decisions[i].rotated
       /\ decisions[i].held > 0
       /\ decisions[i].flushed + decisions[i].pending + decisions[i].lineSize
            = splitSizeInBytes
  /\ \E i \in 1..Len(decisions) :
       /\ decisions[i].held = 0
       /\ decisions[i].lineSize > splitSizeInBytes

\* The bytes of the lines appended to chunk k so far: those handed to its write()
\* and, for the current chunk, those still in the batch.
LinesOf(k) ==
  handed[k] \o (IF k = currentFileIndex THEN Utf8Encode(Join(pendingLines)) ELSE <<>>)

\* C11: a line triggers at most one rotation: it is appended to the chunk that was
\* current when it arrived or to the next one, and to the next one only when it
\* rotated.  A line that arrives at an empty chunk (nothing flushed, nothing
\* pending) never rotates: it goes whole into that chunk, whatever its size, and
\* an oversized line never leaves a chunk index unused.
C11_OneRotationPerLine ==
  /\ \A i \in 1..Len(decisions) :
       LET d == decisions[i]
       IN /\ d.into = IF d.rotated THEN d.index + 1 ELSE d.index
          /\ (d.flushed = 0 /\ d.pending = 0) =>
                /\ ~d.rotated
                /\ d.held = 0
                /\ openedBy[d.index] = d.lineSize
                /\ Len(LinesOf(d.index)) >= d.lineSize
  /\ progressReports = Cardinality(Rotations)
  /\ currentFileIndex = 1 + Cardinality(Rotations)

C11_Witness ==
  /\ pc = "Completed"
  /\ \E i \in 1..Len(decisions) :
       /\ decisions[i].flushed = 0 /\ decisions[i].pending = 0
       /\ decisions[i].lineSize > splitSizeInBytes
       /\ ~decisions[i].rotated
       /\ Len(handed[decisions[i].index]) = decisions[i].lineSize
  /\ Len(decisions) >= 2

\* C12: every chunk's size is at most the target plus the byte size of the line
\* that opened it (the line whose rotation check closed the chunk before), in
\* every chunk of every run, the last chunk of a file whose final line has no
\* trailing newline included.
C12_ChunkSizeBound ==
  \A k \in Created :
    /\ Len(handed[k]) <= splitSizeInBytes + openedBy[k]
    /\ closedSize[k] <= splitSizeInBytes + openedBy[k]

\* A write stream that has not finished: it accepts writes, or end() was called
\* and its file is still to be opened or still to receive queued data.
NotFullyClosed(k) == wsState[k] \in {"open", "ended"} /\ ~Closed(k)

\* C13 as stated: at most one chunk's write stream is not yet fully closed at any
\* time, in every interleaving of stream events.
C13_OneStreamNotClosed ==
  Cardinality({k \in ChunkIds : NotFullyClosed(k)}) <= 1

\* C13, amended: at most one write stream accepts writes at any time, it is the
\* current chunk's, and end() has been called on the stream of every earlier
\* chunk before the next one was created.
C13_OneStreamAcceptsWrites ==
  /\ \A k \in ChunkIds : wsState[k] = "open" => k = currentWriteStream
  /\ \A k \in Created : k < currentFileIndex => wsState[k] \in {"ended", "errored"}
  /\ currentWriteStream # 0 =>
       /\ currentWriteStream = currentFileIndex
       /\ pc = "Streaming" => wsState[currentWriteStream] \in {"open", "errored"}

C13_Witness ==
  \E j, k \in Created :
    /\ j < k
    /\ wsState[j] = "ended" /\ ~Closed(j) /\ wsQueue[j] # <<>>
    /\ wsState[k] = "open" /\ k = currentWriteStream /\ k \in onDisk

\* Chunk k has been closed: end() was called on its stream by a rotation, by the
\* end handler or by the error handler.
EndCalled(k) ==
  \/ wsState[k] = "ended"
  \/ k \in Created /\ (k < currentFileIndex \/ pc \in {"Completed", "Failed", "Finalizing"})

\* A chunk closed by a rotation or at end-of-stream holds exactly the bytes that
\* were counted for it when it was closed.
ClosedChunksKeepCount ==
  \A k \in Created :
    (k < currentFileIndex \/ pc = "Completed") => closedSize[k] = Len(handed[k])

\* C14: once a chunk has been closed, no write is issued to it, its byte count
\* does not change, its stream does not accept writes again and, once its file
\* is complete, the file does not change; lines go to the current index or a
\* higher one only, and the index never goes back.
C14_ClosedChunkImmutable ==
  /\ []ClosedChunksKeepCount
  /\ [][/\ currentFileIndex' >= currentFileIndex
        /\ \A k \in ChunkIds :
             /\ handed'[k] # handed[k] => k >= currentFileIndex
             /\ EndCalled(k) =>
                  /\ handed'[k] = handed[k]
                  /\ closedSize'[k] = closedSize[k]
                  /\ wsState'[k] # "open"
                  /\ Closed(k) => disk'[k] = disk[k] /\ k \in onDisk']_vars

C14_Witness ==
  /\ pc = "Streaming"
  /\ currentFileIndex = 3
  /\ Closed(1) /\ disk[1] = handed[1] /\ Len(disk[1]) = closedSize[1]
  /\ wsState[2] = "ended" /\ wsQueue[2] # <<>>
  /\ closedSize[1] > 0 /\ closedSize[2] > 0

\* The byte sizes of the newline-terminated lines scanned so far, in order.
LineSizes == [i \in 1..Len(decisions) |-> decisions[i].lineSize]

\* C15: the batch is flushed in full before every rotation and at end-of-stream.
\* When a rotation closes a chunk, the bytes counted as flushed into the chunks
\* up to it are those of all lines scanned before the rotating line, and the
\* batch that is left holds lines of the current chunk only; when the run has
\* completed, the batch and the buffer are empty and every scanned byte has
\* been handed to a chunk.
C15_FlushBeforeClose ==
  /\ \A i \in Rotations :
       /\ SumTo(closedSize, decisions[i].index) = SumTo(LineSizes, i - 1)
       /\ Len(ConcatTo(handed, decisions[i].index)) = SumTo(LineSizes, i - 1)
  /\ Len(pendingLines) <= linesInChunk
  /\ pendingSize = ByteLength(Join(pendingLines))
  /\ pc = "Completed" =>
       /\ pendingLines = <<>> /\ pendingSize = 0 /\ buffer = <<>>
       /\ ConcatTo(handed, Len(createdSeq)) = Encoded
       /\ SumTo(closedSize, Len(createdSeq)) = Len(Encoded)

C15_Witness ==
  /\ pc = "Completed"
  /\ \E i \in Rotations : decisions[i].pending > 0 /\ decisions[i].flushed > 0
  /\ handed[currentFileIndex] # <<>>

\* The handlers' state before the first callback (lines 113-120).
Engine0 ==
  [buffer |-> <<>>, pendingLines |-> <<>>, pendingSize |-> 0,
   currentFileIndex |-> 1, currentFileSize |-> 0, currentWriteStream |-> 0,
   linesInChunk |-> 0, wsState |-> [k \in ChunkIds |-> "none"],
   wsQueue |-> [k \in ChunkIds |-> <<>>], handed |-> [k \in ChunkIds |-> <<>>],
   createdSeq |-> <<>>, closedSize |-> [k \in ChunkIds |-> 0],
   openedBy |-> [k \in ChunkIds |-> 0], decisions |-> <<>>, progressReports |-> 0]

\* What the handlers decide, without the write streams' own progress.
Outcome(s) ==
  [buffer |-> s.buffer, pendingLines |-> s.pendingLines,
   pendingSize |-> s.pendingSize, currentFileIndex |-> s.currentFileIndex,
   currentFileSize |-> s.currentFileSize,
   currentWriteStream |-> s.currentWriteStream, handed |-> s.handed,
   createdSeq |-> s.createdSeq, closedSize |-> s.closedSize,
   decisions |-> s.decisions, progressReports |-> s.progressReports]

\* The run in which the read stream delivers the first n characters of the file
\* in one callback.
UncutRun(n) == OnData(Engine0, SubSeq(Decoded, 1, n))

\* C16: the result depends on the file and the target size only, not on how the
\* read stream cuts the file into callbacks: after every callback the handlers
\* are where the uncut run over the same prefix is, a completed run has handed
\* to each chunk what the uncut run hands to it, and when all write streams
\* have finished the chunk files are exactly those.
C16_CutIndependent ==
  /\ pc \in {"Idle", "Prompt", "Refused", "Streaming", "Failed"} =>
       Outcome(Engine) = Outcome(UncutRun(rpos))
  /\ pc = "Completed" =>
       LET whole == OnEndFlush(UncutRun(Len(Decoded)))
       IN /\ Outcome(Engine) = Outcome(whole)
          /\ (\A k \in Created : Closed(k)) =>
                /\ onDisk = 1..Len(whole.createdSeq)
                /\ \A k \in onDisk : disk[k] = whole.handed[k]

\* A callback has ended exactly after a newline, with more of the file to come.
C16_Witness ==
  /\ pc = "Streaming"
  /\ rpos > 0 /\ rpos < Len(Decoded)
  /\ Decoded[rpos] = NL
  /\ currentFileIndex >= 2
  /\ handed[1] # <<>>

\* The lines of a text: each ends with its newline, but for a last one without.
RECURSIVE SplitLines(_)
SplitLines(str) ==
  IF str = <<>> THEN <<>>
  ELSE LET newlineIndex == IndexOfNewline(str)
       IN IF newlineIndex = 0 THEN <<str>>
          ELSE <<SubSeq(str, 1, newlineIndex)>>
                 \o SplitLines(SubSeq(str, newlineIndex + 1, Len(str)))

\* The newline bytes among some bytes.
CountNewlines(bytes) == Cardinality({p \in 1..Len(bytes) : bytes[p] = NL})

\* The file is n >= 1 newline-terminated lines of one byte size, at most the target.
UniformLines ==
  LET lines == SplitLines(Decoded)
  IN /\ Decoded # <<>>
     /\ Decoded[Len(Decoded)] = NL
     /\ \A i \in 1..Len(lines) : ByteLength(lines[i]) = ByteLength(lines[1])
     /\ ByteLength(lines[1]) <= splitSizeInBytes

\* C17: for n newline-terminated lines of one byte size s <= T, a completed run
\* has made ceil(n / floor(T/s)) chunks, every chunk but the last holds
\* floor(T/s) lines and the last one holds the rest.
C17_UniformLinesPacking ==
  (pc = "Completed" /\ UniformLines) =>
    LET lines == SplitLines(Decoded)
        n == Len(lines)
        perChunk == splitSizeInBytes \div ByteLength(lines[1])
        chunks == (n + perChunk - 1) \div perChunk
    IN /\ Len(createdSeq) = chunks
       /\ currentFileIndex = chunks
       /\ \A k \in 1..(chunks - 1) :
            /\ CountNewlines(handed[k]) = perChunk
            /\ closedSize[k] = perChunk * ByteLength(lines[1])
       /\ CountNewlines(handed[chunks]) = n - (chunks - 1) * perChunk

C17_Witness ==
  /\ pc = "Completed"
  /\ UniformLines
  /\ Len(createdSeq) >= 2
  /\ splitSizeInBytes >= 2 * ByteLength(SplitLines(Decoded)[1])
  /\ \A k \in Created : Closed(k) /\ disk[k] = handed[k]

\* C18: for a zero-byte file the splitter makes no chunk and reports no error:
\* the size check answers with a warning and the command returns, before the
\* prompt, the output directory and the streams; the file stays.
C18_EmptyFile ==
  src = <<>> =>
    /\ pc \in {"Idle", "Refused"}
    /\ createdSeq = <<>> /\ onDisk = {}
    /\ ~errorShown /\ promise = "pending"
    /\ ~mkdirCalled /\ sourceExists
    /\ pc = "Refused" => warningShown

C18_Witness ==
  /\ src = <<>>
  /\ pc = "Refused"
  /\ warningShown
  /\ input = <<"none">>

\* The bytes of the source after its last newline byte.
ResidualBytes ==
  LET newlines == {p \in 1..Len(src) : src[p] = NL}
      last == IF newlines = {} THEN 0
              ELSE CHOOSE p \in newlines : \A q \in newlines : q <= p
  IN SubSeq(src, last + 1, Len(src))

IsSuffix(a, b) == Len(a) <= Len(b) /\ SubSeq(b, Len(b) - Len(a) + 1, Len(b)) = a

\* C19: when the source does not end with a newline, a completed run has
\* appended what follows the last newline (as the utf8 streams carry it) as one
\* final line: it is the end of the highest-index chunk, nothing was written
\* after it, it is the one line of the run without a newline, and when that
\* chunk's stream has finished its file ends with it.
C19_ResidualIsLastLine ==
  (pc = "Completed" /\ src # <<>> /\ src[Len(src)] # NL) =>
    LET last == Len(createdSeq)
        residual == Reencode(ResidualBytes)
    IN /\ last >= 1 /\ last = currentFileIndex
       /\ \A k \in ChunkIds : k > last => handed[k] = <<>>
       /\ IsSuffix(residual, handed[last])
       /\ ConcatTo(handed, last) = Encoded
       /\ linesInChunk = CountNewlines(handed[last]) + 1
       /\ \A k \in 1..(last - 1) : handed[k][Len(handed[k])] = NL
       /\ Closed(last) => IsSuffix(residual, disk[last])
       /\ Reencode(ResidualBytes) = ResidualBytes => IsSuffix(ResidualBytes, handed[last])

C19_Witness ==
  /\ pc = "Completed"
  /\ src[Len(src)] # NL
  /\ Len(createdSeq) >= 2
  /\ Len(ResidualBytes) >= 1
  /\ CountNewlines(handed[Len(createdSeq)]) >= 1
  /\ Closed(Len(createdSeq))

\* The name of a file without its extension.
StemOf(name) == SubSeq(name, 1, Len(name) - Len(ExtName(name)))

\* C20: for every path the extension check accepts, the output directory is the
\* sibling directory named after the file's name without its extension, it is
\* not the path of the file itself, and chunk k is named {baseName}_{k}.log in
\* that directory.
C20_OutputPaths ==
  pathStep = "derived" =>
    /\ outputDir = PathJoin(DirOf(filePath), StemOf(BaseOf(filePath)))
    /\ outputDir # filePath
    /\ outputFilePath # NoPath =>
         \E k \in ChunkIds :
           outputFilePath =
             PathJoin(outputDir, ChunkFileName(StemOf(BaseOf(filePath)), k))

\* The progress reports made so far are as many as the rotations.
ReportsMatchRotations ==
  /\ progressReports = Cardinality(Rotations)
  /\ progressReports = currentFileIndex - 1
  /\ createdSeq # <<>> => progressReports = Len(createdSeq) - 1
  /\ progressReports <= Len(createdSeq)

\* C21: progress is reported once at each rotation and at no other time, never
\* per line: the reports made so far are as many as the rotations, a step
\* reports as often as it moves the chunk index, and a run that has created N
\* chunks has made N - 1 reports, at most N.
C21_ProgressOncePerRotation ==
  /\ []ReportsMatchRotations
  /\ [][progressReports' - progressReports = currentFileIndex' - currentFileIndex]_vars

C21_Witness ==
  /\ pc = "Completed"
  /\ progressReports = 1
  /\ Len(createdSeq) = 2
  /\ Len(decisions) >= 3

\* C22: on Completed the summary counts the chunks this run created and reports,
\* for each, the bytes this run wrote to it.
C22_SummaryMatchesRun ==
  pc = "Completed" =>
    /\ summary.shown
    /\ summary.count = Len(createdSeq)
    /\ \A k \in Created : summary.sizes[k] = Len(handed[k])

\* The read stream's events: 'data', 'end', 'error'.
ReaderStep ==
  \/ \E n \in 1..HighWaterMark : Data(n)
  \/ \E unlinkOk, statsOk \in BOOLEAN : End(unlinkOk, statsOk)
  \/ ReadError

\* The runs in which the read stream goes on delivering: while it has an event
\* to deliver, it eventually delivers one.  Nothing is assumed of the write
\* streams.
\* A step of the read stream as the variables show it: while the job is
\* streaming, a callback moves the read position forward or ends the streaming.
ReaderMoves ==
  /\ pc = "Streaming"
  /\ pc' \in {"Streaming", "Completed", "Failed", "Finalizing"}
  /\ rpos' \in 0..Len(Decoded)
  /\ rpos' > rpos \/ pc' # "Streaming"

FairSpec == Spec /\ WF_<<pc, rpos>>(ReaderMoves)

\* C23: a run that has entered Streaming eventually reaches Completed or Failed
\* with its promise settled, provided the read stream goes on to deliver its end
\* or an error; a failed write stream does not prevent it.
C23_Terminates ==
  (pc = "Streaming") ~>
    (pc \in {"Completed", "Failed"} /\ promise \in {"resolved", "rejected"})

\* The characters some UTF-8 bytes written by a write stream encode.
RECURSIVE CountChars(_)
CountChars(bytes) ==
  IF bytes = <<>> THEN 0
  ELSE LET width == CASE Head(bytes) = "EF" -> 3
                      [] Head(bytes) = "C3" -> 2
                      [] OTHER -> 1
       IN 1 + CountChars(SubSeq(bytes, width + 1, Len(bytes)))

\* The characters handed to the write streams and not yet written to a file.
RECURSIVE QueuedCharsTo(_)
QueuedCharsTo(k) ==
  IF k = 0 THEN 0 ELSE CountChars(Join(wsQueue[k])) + QueuedCharsTo(k - 1)
QueuedChars == QueuedCharsTo(MaxLen + 2)

\* The characters of the file's longest line.
LongestLine ==
  LET lines == SplitLines(Decoded)
  IN IF lines = <<>> THEN 0
     ELSE LET i == CHOOSE i \in 1..Len(lines) :
                     \A j \in 1..Len(lines) : Len(lines[j]) <= Len(lines[i])
          IN Len(lines[i])

\* C24: what the job holds in memory is bounded whatever the file's size: beside
\* the partial line in the buffer and the pending batch, the data handed to the
\* write streams and not yet written stays within one input chunk
\* (HighWaterMark bytes, so at most as many characters) and the partial line
\* that came with it, however fast the read stream delivers.
C24_BoundedMemory ==
  QueuedChars <= HighWaterMark + LongestLine

C26_LazyOutputDir ==
  /\ (pc \in {"Completed", "Failed", "Finalizing", "Refused"} /\ createdSeq = <<>>)
       => ~mkdirCalled
  /\ mkdirCalled => (createdSeq # <<>> \/ pc = "Streaming")


\* C27: the rotation check is applied to the final unterminated line too: when
\* the source does not end with a newline and the end handler has run, the final
\* line shares its chunk with earlier lines only if the chunk, that line
\* included, does not exceed the target; otherwise the earlier chunk was closed
\* and the final line is the only content of a new chunk.
C27_FinalLineRotates ==
  (pc \in {"Completed", "Finalizing"} /\ src # <<>> /\ src[Len(src)] # NL) =>
    LET last == currentFileIndex
        residual == Reencode(ResidualBytes)
    IN \/ handed[last] = residual
       \/ Len(handed[last]) <= splitSizeInBytes


\* C28: the pending batch never holds more lines than the batch threshold: right
\* after a line is pushed the batch holds at most BATCH_SIZE lines, a batch that
\* reached the threshold is flushed at once and a shorter one is kept, so
\* after each line, and between any two handler runs, the batch holds fewer
\* than BATCH_SIZE lines.
C28_BatchBelowThreshold ==
  /\ Len(pendingLines) < BATCH_SIZE
  /\ \A i \in 1..Len(decisions) :
       LET d == decisions[i]
       IN /\ d.batch <= BATCH_SIZE
          /\ d.kept < BATCH_SIZE
          /\ d.kept = IF d.batch = BATCH_SIZE THEN 0 ELSE d.batch

C28_Witness ==
  /\ pc = "Streaming"
  /\ Len(pendingLines) = BATCH_SIZE - 1
  /\ \E i \in 1..Len(decisions) :
       decisions[i].batch = BATCH_SIZE /\ decisions[i].kept = 0
  /\ \E i \in 1..Len(decisions) :
       decisions[i].batch < BATCH_SIZE /\ decisions[i].kept = decisions[i].batch


\* C29: a flush of the batch held in any reachable state issues one write to
\* the current chunk's stream, of all pending lines joined in their order,
\* empties the batch and adds the byte count of what it wrote to the chunk's
\* counter, leaving every other chunk alone; and in every state the pending-size
\* counter is the byte count of the pending lines and the current-chunk counter
\* is the byte count of what was handed to the current chunk's stream.
C29_FlushAccounting ==
  /\ pendingSize = Len(Utf8Encode(Join(pendingLines)))
  /\ currentFileSize = Len(handed[currentFileIndex])
  /\ (pendingLines # <<>> /\ currentWriteStream # 0) =>
       LET f == flushPendingLines(Engine)
           k == currentWriteStream
           bytes == Utf8Encode(Join(pendingLines))
       IN /\ k = currentFileIndex
          /\ f.handed[k] = handed[k] \o bytes
          /\ wsState[k] = "open" => f.wsQueue[k] = Append(wsQueue[k], bytes)
          /\ Len(f.wsQueue[k]) <= Len(wsQueue[k]) + 1
          /\ \A j \in ChunkIds \ {k} :
               f.handed[j] = handed[j] /\ f.wsQueue[j] = wsQueue[j]
          /\ f.pendingLines = <<>> /\ f.pendingSize = 0
          /\ f.currentFileSize = currentFileSize + Len(bytes)
          /\ f.currentFileSize = Len(f.handed[k])
          /\ f.currentWriteStream = k /\ f.currentFileIndex = currentFileIndex

C29_Witness ==
  /\ pc = "Streaming"
  /\ currentWriteStream # 0
  /\ currentFileSize > 0
  /\ pendingLines # <<>>
  /\ handed[currentFileIndex] # <<>>


\* C30: whenever the batch holds lines there is a current chunk stream: it is
\* the stream of the current index, it was created before the lines were
\* pushed, and while the run is streaming end() has not been called on it; so
\* a flush in that state is not skipped and leaves the batch empty.  There is
\* no reachable state with pending lines and no current chunk.
C30_PendingHasChunk ==
  /\ pendingLines # <<>> =>
       /\ currentWriteStream # 0
       /\ currentWriteStream = currentFileIndex
       /\ \E i \in 1..Len(createdSeq) : createdSeq[i] = currentWriteStream
       /\ pc = "Streaming" => wsState[currentWriteStream] \in {"open", "errored"}
       /\ flushPendingLines(Engine).pendingLines = <<>>
       /\ flushPendingLines(Engine).handed[currentWriteStream]
            = handed[currentWriteStream] \o Utf8Encode(Join(pendingLines))
  /\ pc \in {"Completed", "Finalizing"} => pendingLines = <<>>
  /\ \A i \in 1..Len(decisions) :
       \E j \in 1..Len(createdSeq) : createdSeq[j] = decisions[i].into

C30_Witness ==
  /\ pc = "Streaming"
  /\ pendingLines # <<>>
  /\ currentFileIndex >= 2
  /\ wsState[currentWriteStream] = "open"


\* The characters the read stream has delivered so far.
Delivered == SubSeq(Decoded, 1, rpos)

\* What follows the last newline of a string.
RECURSIVE AfterLastNewline(_)
AfterLastNewline(str) ==
  IF IndexOfNewline(str) = 0 THEN str
  ELSE AfterLastNewline(RestOf(str, IndexOfNewline(str)))

\* C31: after every data callback the scanner buffer contains no newline: it is
\* what was delivered after the last newline, at most one partial line; every
\* complete line delivered so far went through the line loop, and all of them
\* are, in order, in the chunks' streams or in the batch.
C31_BufferHoldsPartialLine ==
  /\ IndexOfNewline(buffer) = 0
  /\ pc = "Streaming" =>
       /\ buffer = AfterLastNewline(Delivered)
       /\ Len(decisions) = Cardinality({p \in 1..rpos : Decoded[p] = NL})
       /\ ConcatTo(handed, currentFileIndex) \o Utf8Encode(Join(pendingLines))
            \o Utf8Encode(buffer) = Utf8Encode(Delivered)

C31_Witness ==
  /\ pc = "Streaming"
  /\ buffer # <<>>
  /\ Len(decisions) >= 2
  /\ pendingLines # <<>>
  /\ handed[1] # <<>>


\* --------------------------------------------------------- the clock runs
\* Time passes between two callbacks.
Tick ==
  /\ now < MaxTime
  /\ now' = now + 1
  /\ UNCHANGED <<pc, src, sourceExists, outputDirExists, mkdirCalled,
                 splitSizeInBytes, rpos, engineVars, onDisk, disk, writeErrors,
                 promise, uiVars, lastProgressReport, completionLogs>>
  /\ UNCHANGED <<pathVars, downloadVars>>

\* The runs of the reader's callbacks with the clock running, for the files made
\* of line feeds and one letter.  The write streams' own events change nothing
\* the log lines depend on and are left out.
LogInit ==
  /\ Init
  /\ outputDirExists
  /\ \A p \in 1..Len(src) : src[p] \in {NL, "a"}

LogNext ==
  \/ Tick
  \/ CheckSize
  \/ \E value \in Inputs : RejectInput(value)
  \/ CancelInput
  \/ \E value \in Inputs, mkdirOk \in BOOLEAN : AcceptInput(value, mkdirOk)
  \/ \E n \in 1..HighWaterMark : Data(n)
  \/ \E unlinkOk, statsOk \in BOOLEAN : End(unlinkOk, statsOk)
  \/ ReadError

LogSpec == LogInit /\ [][LogNext]_vars

\* C32: any two 'completed file k/estimated' lines of a run, the one written at
\* end-of-stream for the last chunk included, are more than the interval apart.
C32_LogsThrottled ==
  \A i, j \in 1..Len(completionLogs) :
    i < j => completionLogs[j].time - completionLogs[i].time > LogInterval


\* C33: the size every rotation check works with is the number of bytes the
\* line has in UTF-8, not its number of characters: a line rotates exactly when
\* a chunk is open and its bytes, with the bytes counted for the chunk so far,
\* exceed the target, and the counters of the chunks are the numbers of bytes
\* handed to their streams.
C33_ByteLengthAccounting ==
  /\ \A i \in 1..Len(decisions) :
       LET d == decisions[i]
           bytes == Utf8Encode(SplitLines(Decoded)[i])
       IN /\ d.lineSize = Len(bytes)
          /\ d.rotated <=> (i > 1 /\ d.flushed + d.pending + Len(bytes) > splitSizeInBytes)
          /\ d.flushed + d.pending + (IF d.rotated THEN 0 ELSE Len(bytes))
               <= Len(LinesOf(d.index))
  /\ currentFileSize + pendingSize = Len(LinesOf(currentFileIndex))
  /\ \A k \in Created : k < currentFileIndex => closedSize[k] = Len(handed[k])

\* A line of more bytes than characters rotates where its character count
\* would still have fitted.
C33_Witness ==
  /\ pc = "Completed"
  /\ \E i \in 1..Len(decisions) :
       LET d == decisions[i]
           line == SplitLines(Decoded)[i]
       IN /\ d.rotated
          /\ Len(line) < d.lineSize
          /\ d.flushed + d.pending + Len(line) <= splitSizeInBytes


\* The byte size of the first line appended to chunk k.
FirstLineSize(k) ==
  LET bytes == LinesOf(k)
      ends == {p \in 1..Len(bytes) : bytes[p] = NL}
  IN IF ends = {} THEN Len(bytes)
     ELSE CHOOSE p \in ends : \A q \in ends : p <= q

\* C34: chunks are packed greedily: for every two consecutive chunks k and k+1,
\* the size of chunk k plus the byte size of the first line of chunk k+1 is
\* strictly greater than the target; no rotation happens while the line would
\* still fit.
C34_GreedyPacking ==
  /\ \A k \in Created :
       (k + 1) \in Created =>
          /\ FirstLineSize(k + 1) = openedBy[k + 1]
          /\ Len(handed[k]) + FirstLineSize(k + 1) > splitSizeInBytes
          /\ closedSize[k] + FirstLineSize(k + 1) > splitSizeInBytes
  /\ \A i \in Rotations :
       decisions[i].flushed + decisions[i].pending + decisions[i].lineSize
          > splitSizeInBytes

C34_Witness ==
  /\ pc = "Completed"
  /\ Len(createdSeq) >= 2
  /\ \E k \in Created :
       /\ (k + 1) \in Created
       /\ Len(handed[k]) < splitSizeInBytes
       /\ FirstLineSize(k + 1) <= splitSizeInBytes
  /\ \A k \in Created : Closed(k)


\* C35: the chunk index of every 'completed file k/estimated' line is at most
\* the estimate ceil(fileSize / target) it is shown with, and the increments
\* reported to the progress bar, 100 / estimated for each rotation, add up to at
\* most 100.
C35_IndexWithinEstimate ==
  /\ \A i \in 1..Len(completionLogs) :
       completionLogs[i].index <= completionLogs[i].estimated
  /\ pc \in {"Streaming", "Finalizing", "Completed"} =>
       progressReports * 100 <= 100 * estimatedFiles


\* ------------------------------------------------- the command's refusals
\* The command from its invocation to the start of the streaming: with or
\* without a selected file, which exists or not, for every file name of up to
\* MaxNameLen pieces and every content of line feeds and one letter.
CommandInit ==
  /\ CommandState0
  /\ destFile = "absent"
  /\ sourceExists \in BOOLEAN
  /\ src \in {s \in SeqsUpTo(MaxLen) : \A p \in 1..Len(s) : s[p] \in {NL, "a"}}
  /\ filePath \in {NoPath} \cup {PathJoin(Dir, name) : name \in NamesUpTo(MaxNameLen) \ {<<>>}}
  /\ pathStep = "selected"
  /\ fileName = <<>>
  /\ outputDir = NoPath
  /\ outputFilePath = NoPath

CommandNext ==
  \/ CheckFile
  \/ CheckExtension
  \/ CheckSize
  \/ \E value \in Inputs : RejectInput(value)
  \/ CancelInput
  \/ \E value \in Inputs, mkdirOk \in BOOLEAN : AcceptInput(value, mkdirOk)

CommandSpec == CommandInit /\ [][CommandNext]_vars

\* The command has returned without splitting: no file, a missing file, another
\* extension, a file that is not large enough, or a cancelled prompt.
HasRefused == pathStep = "rejected" \/ pc = "Refused"

\* No output directory was made by the command and no chunk file exists.
NothingOnDisk ==
  /\ ~mkdirCalled
  /\ onDisk = {}
  /\ createdSeq = <<>>
  /\ \A k \in ChunkIds : wsState[k] = "none" /\ disk[k] = <<>> /\ handed[k] = <<>>

RefusalMadeNothing == (HasRefused \/ pc \in {"Idle", "Prompt"}) => NothingOnDisk

\* C36: the command changes nothing on disk when it refuses before streaming:
\* up to and including the refusal (no file selected, the file missing, not a
\* .log file, a file of at most the limit, the prompt cancelled) no step makes
\* the output directory, writes a chunk, or deletes or changes the source.
C36_RefusalChangesNothing ==
  /\ []RefusalMadeNothing
  /\ [][(HasRefused' \/ pc' \in {"Idle", "Prompt"}) =>
          /\ sourceExists' = sourceExists
          /\ outputDirExists' = outputDirExists
          /\ src' = src]_vars

C36_Witness ==
  /\ pc = "Refused"
  /\ input = <<"cancel">>
  /\ validationMessage = FALSE
  /\ ~outputDirExists
  /\ sourceExists
  /\ pathStep = "accepted"


\* Once the handler of 'end' or 'error' has returned, the promise is settled:
\* resolved in Completed, rejected in Failed.  Finalizing is the state the end
\* handler leaves when it returns without reaching resolve().  A run that
\* failed with the output directory in place failed while streaming.
SettledWhenHandlerReturned ==
  /\ pc = "Completed" => promise = "resolved"
  /\ (pc = "Failed" /\ outputDirExists) => promise = "rejected"
  /\ pc = "Finalizing" => promise # "pending"
  /\ promise = "resolved" => pc = "Completed"
  /\ promise = "rejected" => pc = "Failed"

\* No source deletion is attempted in a run in which a read error occurred.
NoDeletionAfterReadError ==
  pc = "Failed" => sourceExists /\ ~unlinkFailed /\ ~summary.shown

\* C37: Completed and Failed are mutually exclusive and final, and the job's
\* promise is settled exactly once: when the handler of end-of-stream or of a
\* read error has returned the promise is settled, and it never changes
\* afterwards; after end-of-stream or a read error the state stays what it is,
\* no line is appended and no chunk is created; and the source is never
\* deleted, nor its deletion attempted, in a run with a read error.
C37_SettledOnceAndFinal ==
  /\ []SettledWhenHandlerReturned
  /\ []NoDeletionAfterReadError
  /\ [][promise # "pending" => promise' = promise]_vars
  /\ [][(pc \in {"Completed", "Failed", "Finalizing"}) =>
          /\ pc' = pc
          /\ handed' = handed
          /\ createdSeq' = createdSeq
          /\ pendingLines' = pendingLines
          /\ decisions' = decisions
          /\ sourceExists' = sourceExists]_vars


\* ------------------------------------------------------------ downloadFile
\* downloadFile(url, destPath, maxRedirects = 5) of the download script.
maxRedirects == 5

\* The status codes a server answers with: success, the three redirects the
\* function follows, a redirect it does not follow, and a failure.
Statuses == {200, 301, 302, 307, 308, 404}

\* res.statusCode === 301 || res.statusCode === 302 || res.statusCode === 307.
IsRedirect(status) == status \in {301, 302, 307}

\* The callback of requester.get for a response with this status, with or
\* without a Location header: a redirect is refused when the count has reached
\* maxRedirects or the header is missing, and followed by the next request
\* otherwise; any other status than 200 rejects; 200 creates the write stream
\* of destPath and pipes the response into it.
Response(status, hasLocation) ==
  /\ dlState = "requesting"
  /\ responses' = Append(responses, [status |-> status, location |-> hasLocation])
  /\ IF IsRedirect(status)
     THEN IF redirectCount >= maxRedirects \/ ~hasLocation
          THEN /\ dlPromise' = "rejected"
               /\ dlState' = "done"
               /\ UNCHANGED <<redirectCount, fileStream, destFile>>
          ELSE /\ redirectCount' = redirectCount + 1
               /\ UNCHANGED <<dlState, dlPromise, fileStream, destFile>>
     ELSE IF status # 200
          THEN /\ dlPromise' = "rejected"
               /\ dlState' = "done"
               /\ UNCHANGED <<redirectCount, fileStream, destFile>>
          ELSE /\ dlState' = "receiving"
               /\ fileStream' = "opening"
               /\ UNCHANGED <<redirectCount, dlPromise, destFile>>
  /\ UNCHANGED <<splitVars, pathVars>>

\* req.on('error'): the request in flight fails before a response.
RequestError ==
  /\ dlState = "requesting"
  /\ dlPromise' = "rejected"
  /\ dlState' = "done"
  /\ UNCHANGED <<redirectCount, fileStream, destFile, responses>>
  /\ UNCHANGED <<splitVars, pathVars>>

\* The write stream opens destPath: the file is created, or emptied.
FileOpen ==
  /\ dlState = "receiving"
  /\ fileStream = "opening"
  /\ fileStream' = "open"
  /\ destFile' = "partial"
  /\ UNCHANGED <<dlState, redirectCount, dlPromise, responses>>
  /\ UNCHANGED <<splitVars, pathVars>>

\* file.on('finish'): the response has ended and all of it is written.
FileFinish ==
  /\ dlState = "receiving"
  /\ fileStream = "open"
  /\ fileStream' = "finished"
  /\ destFile' = "complete"
  /\ dlPromise' = "resolved"
  /\ dlState' = "done"
  /\ UNCHANGED <<redirectCount, responses>>
  /\ UNCHANGED <<splitVars, pathVars>>

\* fs.unlinkSync(destPath) throws when there is no file at destPath, and may
\* throw or not when there is one.
UnlinkThrows(unlinkOk) == destFile = "absent" \/ ~unlinkOk

\* file.on('error'): the stream could not open destPath, or a write failed.
\* unlinkSync comes first: when it throws, the exception leaves the handler
\* before reject().
FileError(unlinkOk) ==
  /\ dlState = "receiving"
  /\ fileStream \in {"opening", "open"}
  /\ fileStream' = "errored"
  /\ IF UnlinkThrows(unlinkOk)
     THEN /\ dlState' = "crashed"
          /\ UNCHANGED <<dlPromise, destFile>>
     ELSE /\ destFile' = "absent"
          /\ dlPromise' = "rejected"
          /\ dlState' = "done"
  /\ UNCHANGED <<redirectCount, responses>>
  /\ UNCHANGED <<splitVars, pathVars>>

\* The response breaks off before its end: the pipe never ends the write
\* stream, and the response has no 'error' or 'aborted' listener.
ResponseAborted ==
  /\ dlState = "receiving"
  /\ dlState' = "stalled"
  /\ UNCHANGED <<redirectCount, dlPromise, fileStream, destFile, responses>>
  /\ UNCHANGED <<splitVars, pathVars>>

\* One call of downloadFile, from makeRequest(url, 0), with or without a file
\* at destPath.
DownloadInit ==
  /\ src = <<>>
  /\ sourceExists = TRUE
  /\ CommandState0
  /\ outputDirExists = FALSE
  /\ destFile \in {"absent", "old"}
  /\ filePath = SplitPath
  /\ pathStep = "selected"
  /\ fileName = <<>>
  /\ outputDir = NoPath
  /\ outputFilePath = NoPath

DownloadNext ==
  \/ \E status \in Statuses, hasLocation \in BOOLEAN : Response(status, hasLocation)
  \/ RequestError
  \/ FileOpen
  \/ FileFinish
  \/ \E unlinkOk \in BOOLEAN : FileError(unlinkOk)
  \/ ResponseAborted

\* Every request is answered or fails, and a response that is being received
\* ends, breaks off or meets a failing write stream.
DownloadSpec == DownloadInit /\ [][DownloadNext]_vars /\ WF_vars(DownloadNext)

\* The redirects received so far.
Redirects == {i \in 1..Len(responses) : IsRedirect(responses[i].status)}

\* At most maxRedirects redirects are followed; one more, or one without a
\* Location header, rejects.
RedirectsBounded ==
  /\ redirectCount <= maxRedirects
  /\ redirectCount <= Cardinality(Redirects)
  /\ Cardinality(Redirects) > maxRedirects => dlPromise = "rejected"
  /\ \A i \in Redirects : ~responses[i].location => dlPromise = "rejected"

\* The file at destPath is touched only after a 200 response.
WrittenAfter200 ==
  (fileStream # "none" \/ destFile \in {"partial", "complete"})
     => responses # <<>> /\ responses[Len(responses)].status = 200

\* C38: downloadFile follows at most maxRedirects redirects: a longer chain of
\* redirects ends with the promise rejected, a redirect without a Location
\* header is rejected, the destination file is written only after a 200
\* response, and in every case the promise is eventually settled.
C38_DownloadSettles ==
  /\ []RedirectsBounded
  /\ []WrittenAfter200
  /\ <>(dlPromise # "pending")

====
